---------------------------- MODULE Spec2Model ----------------------------
(***************************************************************************)
(* openrouteservice/geocode.py: the three Pelias request builders          *)
(* (pelias_search, pelias_structured, pelias_reverse).  Each call takes    *)
(* keyword arguments, validates them, builds the query mapping and hands   *)
(* it to client.request.  A call is a pure function of its arguments and   *)
(* of the client's behaviour; the state machine draws the arguments in     *)
(* Init and runs the call in one step.                                     *)
(***************************************************************************)
EXTENDS Integers, Sequences, FiniteSets, TLC

VARIABLES
    pc,         \* "call" before the operation has run, "done" after it
    op,         \* the operation called
    args,       \* its arguments: keyword name -> Python value
    client,     \* the caller's client: what its request method does
    exc,        \* the exception the call ended in ("" when it returned)
    msg,        \* the exception's message
    requests,   \* the calls client.request has received, in order
    result      \* the value the call returned

vars == <<pc, op, args, client, exc, msg, requests, result>>

-----------------------------------------------------------------------------
(* Python values.  t is the type's name, n the number (an int or a bool as *)
(* it is, a float in millionths), s the text of a str, l the items of a    *)
(* list or tuple.                                                          *)

\* "%f" prints six decimals: a float is held in millionths.
Micro == 1000000

None == [t |-> "NoneType", n |-> 0, s |-> "", l |-> <<>>]
PyInt(k) == [t |-> "int", n |-> k, s |-> "", l |-> <<>>]
PyFloat(m) == [t |-> "float", n |-> m, s |-> "", l |-> <<>>]
PyBool(b) == [t |-> "bool", n |-> IF b THEN 1 ELSE 0, s |-> "", l |-> <<>>]
Str(x) == [t |-> "str", n |-> 0, s |-> x, l |-> <<>>]
List(xs) == [t |-> "list", n |-> 0, s |-> "", l |-> xs]
Tuple(xs) == [t |-> "tuple", n |-> 0, s |-> "", l |-> xs]

\* Python's truth value of v, as `if v:` tests it.
Truthy(v) ==
    CASE v.t = "NoneType" -> FALSE
      [] v.t \in {"int", "float", "bool"} -> v.n # 0
      [] v.t = "str" -> v.s # ""
      [] OTHER -> v.l # <<>>

\* isinstance(v, str)
IsStr(v) == v.t = "str"

\* The outcome of an expression that may raise: err is the exception's name
\* ("" when it returned val).
Ok(v) == [err |-> "", val |-> v]
Err(e) == [err |-> e, val |-> None]

\* v[i], i counted from 0.
Subscript(v, i) ==
    CASE v.t \in {"list", "tuple"} ->
            IF i < Len(v.l) THEN Ok(v.l[i + 1]) ELSE Err("IndexError")
      [] v.t = "str" ->
            IF i < Len(v.s) THEN Ok(Str(SubSeq(v.s, i + 1, i + 1)))
            ELSE Err("IndexError")
      [] OTHER -> Err("TypeError")

-----------------------------------------------------------------------------
(* Text.                                                                   *)

Digits == "0123456789"
Digit(d) == SubSeq(Digits, d + 1, d + 1)
IsDigit(c) == \E d \in 0..9 : c = Digit(d)
DigitValue(c) == CHOOSE d \in 0..9 : c = Digit(d)

RECURSIVE NatToStr(_)
NatToStr(k) == IF k < 10 THEN Digit(k) ELSE NatToStr(k \div 10) \o Digit(k % 10)

IntToStr(k) == IF k < 0 THEN "-" \o NatToStr(-k) ELSE NatToStr(k)

\* k in exactly w digits (k < 10^w).
RECURSIVE ZeroPad(_, _)
ZeroPad(k, w) == IF w = 0 THEN "" ELSE ZeroPad(k \div 10, w - 1) \o Digit(k % 10)

\* s.rstrip(c)
RECURSIVE RStrip(_, _)
RStrip(s, c) ==
    IF Len(s) > 0 /\ SubSeq(s, Len(s), Len(s)) = c
    THEN RStrip(SubSeq(s, 1, Len(s) - 1), c)
    ELSE s

\* The first place sub starts in s from place i on, 0 when there is none.
RECURSIVE Find(_, _, _)
Find(s, sub, i) ==
    IF i + Len(sub) - 1 > Len(s) THEN 0
    ELSE IF SubSeq(s, i, i + Len(sub) - 1) = sub THEN i
    ELSE Find(s, sub, i + 1)

Contains(s, sub) == Find(s, sub, 1) # 0

RECURSIVE AllDigits(_)
AllDigits(s) == s = "" \/ (IsDigit(Head(s)) /\ AllDigits(Tail(s)))

RECURSIVE DigitsToNat(_)
DigitsToNat(s) ==
    IF s = "" THEN 0
    ELSE DigitsToNat(SubSeq(s, 1, Len(s) - 1)) * 10 + DigitValue(SubSeq(s, Len(s), Len(s)))

\* sep.join(items), the items being str values.
RECURSIVE Join(_, _)
Join(sep, items) ==
    IF items = <<>> THEN ""
    ELSE IF Len(items) = 1 THEN items[1].s
    ELSE items[1].s \o sep \o Join(sep, Tail(items))

\* repr of a list of str: ['a', 'b']
RECURSIVE ReprItems(_)
ReprItems(xs) ==
    IF xs = <<>> THEN ""
    ELSE IF Len(xs) = 1 THEN "'" \o xs[1] \o "'"
    ELSE "'" \o xs[1] \o "', " \o ReprItems(Tail(xs))

Repr(xs) == "[" \o ReprItems(xs) \o "]"

\* template.format(xs): the first "{}" of the template replaced by the repr of
\* xs; a template without a replacement field ignores the argument.
Format(template, xs) ==
    LET i == Find(template, "{}", 1) IN
    IF i = 0 THEN template
    ELSE SubSeq(template, 1, i - 1) \o Repr(xs) \o SubSeq(template, i + 2, Len(template))

-----------------------------------------------------------------------------
(* openrouteservice.convert: the helpers geocode.py calls.                 *)

\* float(s) of a str, in millionths: a decimal numeral [-]digits[.digits]
\* converts (the numerals drawn have at most six decimals), any other text is
\* a ValueError.
ParseFloat(s) ==
    LET neg == Len(s) > 0 /\ Head(s) = "-"
        u == IF neg THEN Tail(s) ELSE s
        dot == Find(u, ".", 1)
        ip == IF dot = 0 THEN u ELSE SubSeq(u, 1, dot - 1)
        fp == IF dot = 0 THEN "" ELSE SubSeq(u, dot + 1, Len(u))
        mag == DigitsToNat(ip) * Micro + DigitsToNat(fp \o SubSeq("000000", 1, 6 - Len(fp)))
    IN  IF AllDigits(ip) /\ AllDigits(fp) /\ Len(fp) <= 6 /\ ip \o fp # ""
        THEN Ok(PyFloat(IF neg THEN -mag ELSE mag))
        ELSE Err("ValueError")

\* float(v)
ToFloat(v) ==
    CASE v.t \in {"int", "bool"} -> Ok(PyFloat(v.n * Micro))
      [] v.t = "float" -> Ok(v)
      [] v.t = "str" -> ParseFloat(v.s)
      [] OTHER -> Err("TypeError")

\* "%f" % x
PercentF(m) ==
    LET a == IF m < 0 THEN -m ELSE m IN
    (IF m < 0 THEN "-" ELSE "") \o NatToStr(a \div Micro) \o "." \o ZeroPad(a % Micro, 6)

\* convert._format_float(arg): ("%f" % float(arg)).rstrip("0").rstrip(".")
_format_float(v) ==
    LET f == ToFloat(v) IN
    IF f.err # "" THEN f ELSE Ok(Str(RStrip(RStrip(PercentF(f.val.n), "0"), ".")))

\* convert._is_list(arg): a list or a tuple, never a str.
_is_list(v) == v.t \in {"list", "tuple"}

\* convert._comma_list(arg): ",".join(arg)
_comma_list(v) == Str(Join(",", v.l))

\* str(v) of a number: an int in decimal, a float with at least one decimal.
PyStr(v) ==
    CASE v.t = "int" -> Str(IntToStr(v.n))
      [] v.t = "float" ->
            LET f == RStrip(PercentF(v.n), "0") IN
            Str(IF SubSeq(f, Len(f), Len(f)) = "." THEN f \o "0" ELSE f)
      [] v.t = "bool" -> Str(IF v.n = 1 THEN "True" ELSE "False")
      [] v.t = "NoneType" -> Str("None")
      [] OTHER -> Str(v.s)

-----------------------------------------------------------------------------
(* openrouteservice/geocode.py                                             *)

valid_layers ==
    << "venue", "address", "street", "neighbourhood", "borough", "localadmin",
       "locality", "county", "macrocounty", "region", "macroregion", "county",
       "coarse" >>

valid_sources == << "osm", "oa", "wof", "gn" >>

\* `x in xs` for a list xs of str.
In(x, xs) == x.t = "str" /\ \E i \in 1..Len(xs) : xs[i] = x.s

\* all((x in xs) for x in v)
AllIn(v, xs) == \A i \in 1..Len(v.l) : In(v.l[i], xs)

\* A call under way: the mapping built so far and the exception raised, if any
\* ("" while none was).
Begin(p) == [params |-> p, exc |-> "", msg |-> ""]
Raise(st, e, m) == [st EXCEPT !.exc = e, !.msg = m]

\* params[key] = val
Set(st, key, val) == [st EXCEPT !.params = (key :> val) @@ @]

\* params[key] = convert._format_float(val)
SetFloat(st, key, val) ==
    IF st.exc # "" THEN st
    ELSE LET f == _format_float(val) IN
         IF f.err # "" THEN Raise(st, f.err, "could not convert to float")
         ELSE Set(st, key, f.val)

\* params[key] = convert._format_float(seq[i])
SetCoord(st, key, seq, i) ==
    IF st.exc # "" THEN st
    ELSE LET e == Subscript(seq, i) IN
         IF e.err # "" THEN Raise(st, e.err, "cannot subscript")
         ELSE SetFloat(st, key, e.val)

\* if point: params[lon] = ..(point[0]); params[lat] = ..(point[1])
IfPoint(st, lon, lat, point) ==
    IF st.exc # "" \/ ~Truthy(point) THEN st
    ELSE SetCoord(SetCoord(st, lon, point, 0), lat, point, 1)

\* if x: params[key] = convert._format_float(x)
IfFloat(st, key, x) ==
    IF st.exc # "" \/ ~Truthy(x) THEN st ELSE SetFloat(st, key, x)

\* IfRaw testing `x is not None` in place of the truth value.
IfRawNotNone(st, key, x) ==
    IF st.exc # "" \/ x = None THEN st ELSE Set(st, key, x)

\* if x: params[key] = x
IfRaw(st, key, x) ==
    IF st.exc # "" \/ ~Truthy(x) THEN st ELSE Set(st, key, x)

\* IfStr without the isinstance check.
IfStrUnchecked(st, key, x, m) ==
    IF st.exc # "" \/ ~Truthy(x) THEN st ELSE Set(st, key, x)

\* if x: a str or TypeError(m); params[key] = x
IfStr(st, key, x, m) ==
    IF st.exc # "" \/ ~Truthy(x) THEN st
    ELSE IF ~IsStr(x) THEN Raise(st, "TypeError", m)
    ELSE Set(st, key, x)

\* IfSources without the membership check.
IfSourcesUnchecked(st, x) ==
    IF st.exc # "" \/ ~Truthy(x) THEN st
    ELSE IF ~_is_list(x) THEN Raise(st, "TypeError", "Data source invalid.")
    ELSE Set(st, "sources", _comma_list(x))

\* if sources: a list or TypeError; every item valid or ValueError; the items
\* comma-joined.
IfSources(st, x) ==
    IF st.exc # "" \/ ~Truthy(x) THEN st
    ELSE IF ~_is_list(x) THEN Raise(st, "TypeError", "Data source invalid.")
    ELSE IF ~AllIn(x, valid_sources)
         THEN Raise(st, "ValueError",
                    Format("Source must be one or more of {}", valid_sources))
    ELSE Set(st, "sources", _comma_list(x))

\* IfLayers taking a bare str as a single layer.
IfLayersStrOk(st, x) ==
    IF st.exc # "" \/ ~Truthy(x) THEN st
    ELSE IF ~_is_list(x) /\ ~IsStr(x)
         THEN Raise(st, "TypeError", "Invalid layer type for geocoding.")
    ELSE IF ~(IF IsStr(x) THEN In(x, valid_layers) ELSE AllIn(x, valid_layers))
         THEN Raise(st, "ValueError",
                    Format("Source must be one or more of ", valid_layers))
    ELSE Set(st, "layers", IF IsStr(x) THEN x ELSE _comma_list(x))

\* if layers: the same against valid_layers.
IfLayers(st, x) ==
    IF st.exc # "" \/ ~Truthy(x) THEN st
    ELSE IF ~_is_list(x)
         THEN Raise(st, "TypeError", "Invalid layer type for geocoding.")
    ELSE IF ~AllIn(x, valid_layers)
         THEN Raise(st, "ValueError",
                    Format("Source must be one or more of ", valid_layers))
    ELSE Set(st, "layers", _comma_list(x))

\* client.request(path, params, dry_run=dry_run): the client receives the
\* call, and returns its response or raises.
Request(c, path, params, dry_run) ==
    [ exc |-> IF c.raises THEN "ApiError" ELSE "",
      msg |-> "",
      requests |-> << [path |-> path, params |-> params, dry_run |-> dry_run] >>,
      result |-> IF c.raises THEN None ELSE c.response ]

\* Delegate sending the request before the error of the arguments is raised.
DelegateEager(c, path, st, dry_run) ==
    LET r == Request(c, path, st.params, dry_run) IN
    IF st.exc # "" THEN [r EXCEPT !.exc = st.exc, !.msg = st.msg, !.result = None]
    ELSE r

\* Delegate not passing dry_run on.
DelegateNoDryRun(c, path, st, dry_run) ==
    IF st.exc # ""
    THEN [exc |-> st.exc, msg |-> st.msg, requests |-> <<>>, result |-> None]
    ELSE Request(c, path, st.params, None)

\* return client.request(path, params, dry_run=dry_run), unless building params
\* raised.
Delegate(c, path, st, dry_run) ==
    IF st.exc # ""
    THEN [exc |-> st.exc, msg |-> st.msg, requests |-> <<>>, result |-> None]
    ELSE Request(c, path, st.params, dry_run)

\* pelias_search writing rect_max_y under a max-latitude key of its own.
pelias_search_max_lat(c, a) ==
    LET s0 == Begin("text" :> a.text)
        s1 == IfPoint(s0, "focus.point.lon", "focus.point.lat", a.focus_point)
        s2 == IfFloat(s1, "boundary.rect.min_lon\t", a.rect_min_x)
        s3 == IfFloat(s2, "boundary.rect.min_lat\t", a.rect_min_y)
        s4 == IfFloat(s3, "boundary.rect.max_lon\t", a.rect_max_x)
        s5 == IfFloat(s4, "boundary.rect.max_lat\t", a.rect_max_y)
        s6 == IfPoint(s5, "boundary.circle.lon", "boundary.circle.lat", a.circle_point)
        s7 == IfRaw(s6, "boundary.circle.radius", a.circle_radius)
        s8 == IfSources(s7, a.sources)
        s9 == IfLayers(s8, a.layers)
        s10 == IfStr(s9, "country", a.country, "Country must be a string.")
        s11 == IfRaw(s10, "size", a.size)
    IN  Delegate(c, "/geocode/search", s11, a.dry_run)

pelias_search(c, a) ==
    LET s0 == Begin("text" :> a.text)
        s1 == IfPoint(s0, "focus.point.lon", "focus.point.lat", a.focus_point)
        s2 == IfFloat(s1, "boundary.rect.min_lon\t", a.rect_min_x)
        s3 == IfFloat(s2, "boundary.rect.min_lat\t", a.rect_min_y)
        s4 == IfFloat(s3, "boundary.rect.max_lon\t", a.rect_max_x)
        s5 == IfFloat(s4, "boundary.rect.max_lon\t", a.rect_max_y)
        s6 == IfPoint(s5, "boundary.circle.lon", "boundary.circle.lat", a.circle_point)
        s7 == IfRaw(s6, "boundary.circle.radius", a.circle_radius)
        s8 == IfSources(s7, a.sources)
        s9 == IfLayers(s8, a.layers)
        s10 == IfStr(s9, "country", a.country, "Country must be a string.")
        s11 == IfRaw(s10, "size", a.size)
    IN  Delegate(c, "/geocode/search", s11, a.dry_run)

pelias_structured(c, a) ==
    LET s0 == Begin("text" :> a.text)
        s1 == IfStr(s0, "address", a.address, "Address must be a string.")
        s2 == IfStr(s1, "neighbourhood", a.neighbourhood, "Neighbourhood must be a string.")
        s3 == IfStr(s2, "borough", a.borough, "Borough must be a string.")
        s4 == IfStr(s3, "locality", a.locality, "Locality must be a string.")
        s5 == IfStr(s4, "county", a.county, "County must be a string.")
        s6 == IfStr(s5, "region", a.region, "Region must be a string.")
        s7 == IfStr(s6, "postalcode", a.postalcode, "Postalcode must be a string.")
        s8 == IfStr(s7, "country", a.country, "Country must be a string.")
    IN  Delegate(c, "/geocode/search/structured", s8, a.dry_run)

\* if not convert._is_list(point): raise TypeError; then both coordinates.
ReversePoint(st, point) ==
    IF ~_is_list(point)
    THEN Raise(st, "TypeError", "Point must be a list/tuple of coordinates.")
    ELSE SetCoord(SetCoord(st, "point.lon", point, 0), "point.lat", point, 1)

\* if circle_radius: params['boundary.circle.radius'] = str(circle_radius)
IfRadiusStr(st, x) ==
    IF st.exc # "" \/ ~Truthy(x) THEN st
    ELSE Set(st, "boundary.circle.radius", PyStr(x))

pelias_reverse(c, a) ==
    LET s0 == Begin(<<>>)
        s1 == ReversePoint(s0, a.point)
        s2 == IfRadiusStr(s1, a.circle_radius)
        s3 == IfSources(s2, a.sources)
        s4 == IfLayers(s3, a.layers)
        s5 == IfStr(s4, "country", a.country, "Country must be a string.")
        s6 == IfRaw(s5, "size", a.size)
    IN  Delegate(c, "/geocode/reverse", s6, a.dry_run)

-----------------------------------------------------------------------------
(* The calls checked: for each operation its keyword arguments with their  *)
(* defaults, and for each argument the other values a caller passes.       *)

\* How many arguments of one call differ from their defaults.
MaxSupplied == 3

Ops == {"pelias_search", "pelias_structured", "pelias_reverse"}

\* A client whose request returns a response, and one whose request raises.
Returns(r) == [raises |-> FALSE, response |-> r]
Raises == [raises |-> TRUE, response |-> None]
ClientAlts == {Returns(Str("{features: []}")), Raises}

PointAlts ==
    { List(<<PyFloat(8342340), PyFloat(48234240)>>),
      Tuple(<<PyInt(8), PyFloat(-48500000)>>),
      List(<<PyFloat(8340000)>>),
      List(<<>>),
      PyInt(42),
      Str("12"),
      Str("ab") }

ScalarAlts == {PyFloat(0), PyFloat(8500000), PyInt(49), Str("x")}
RadiusAlts == {PyInt(0), PyInt(50), PyFloat(1500000)}

SourcesAlts ==
    { List(<<>>),
      List(<<Str("osm")>>),
      List(<<Str("wof"), Str("osm")>>),
      Tuple(<<Str("gn"), Str("oa")>>),
      List(<<Str("osm"), Str("foo")>>),
      List(<<PyInt(1)>>),
      Str("osm"),
      Str("foo"),
      Str(""),
      PyInt(7) }

LayersAlts ==
    { List(<<>>),
      List(<<Str("venue")>>),
      List(<<Str("county"), Str("address")>>),
      Tuple(<<Str("coarse"), Str("region")>>),
      List(<<Str("venue"), Str("city")>>),
      Str("venue"),
      Str("city"),
      Str(""),
      PyInt(7) }

CountryAlts == {Str(""), Str("DE"), PyInt(42), List(<<Str("DE")>>)}
SizeAlts == {PyInt(0), PyInt(10)}
DryRunAlts == {PyBool(TRUE), PyBool(FALSE)}
TextAlts == {Str(""), None}
FieldAlts == {Str(""), Str("Neuenheim"), PyInt(42), PyInt(0), List(<<Str("Neuenheim")>>)}

DefaultClient == Returns(Str("{features: [Heidelberg]}"))

Defaults(o) ==
    CASE o = "pelias_search" ->
            [ client |-> DefaultClient, text |-> Str("Heidelberg"),
              focus_point |-> None, rect_min_x |-> None, rect_min_y |-> None,
              rect_max_x |-> None, rect_max_y |-> None, circle_point |-> None,
              circle_radius |-> None, sources |-> None, layers |-> None,
              country |-> None, size |-> None, dry_run |-> None ]
      [] o = "pelias_structured" ->
            [ client |-> DefaultClient, text |-> Str("Heidelberg"),
              address |-> None, neighbourhood |-> None, borough |-> None,
              locality |-> None, county |-> None, region |-> None,
              postalcode |-> None, country |-> None, dry_run |-> None ]
      [] o = "pelias_reverse" ->
            [ client |-> DefaultClient,
              point |-> Tuple(<<PyFloat(8340000), PyFloat(48230000)>>),
              circle_radius |-> None, sources |-> None, layers |-> None,
              country |-> None, size |-> None, dry_run |-> None ]

Alts(o, p) ==
    CASE p = "client" -> ClientAlts
      [] p = "text" -> TextAlts
      [] p = "point" -> PointAlts \cup {None}
      [] p \in {"focus_point", "circle_point"} -> PointAlts
      [] p \in {"rect_min_x", "rect_min_y", "rect_max_x", "rect_max_y"} -> ScalarAlts
      [] p = "circle_radius" -> RadiusAlts
      [] p = "sources" -> SourcesAlts
      [] p = "layers" -> LayersAlts
      [] p = "country" -> IF o = "pelias_structured" THEN FieldAlts ELSE CountryAlts
      [] p = "size" -> SizeAlts
      [] p = "dry_run" -> DryRunAlts
      [] OTHER -> FieldAlts

\* The arguments of o, client first, in the order of its signature.
Signature(o) ==
    CASE o = "pelias_search" ->
            << "client", "text", "focus_point", "rect_min_x", "rect_min_y",
               "rect_max_x", "rect_max_y", "circle_point", "circle_radius",
               "sources", "layers", "country", "size", "dry_run" >>
      [] o = "pelias_structured" ->
            << "client", "text", "address", "neighbourhood", "borough",
               "locality", "county", "region", "postalcode", "country",
               "dry_run" >>
      [] o = "pelias_reverse" ->
            << "client", "point", "circle_radius", "sources", "layers",
               "country", "size", "dry_run" >>

Kwargs(call) == [p \in DOMAIN call \ {"client"} |-> call[p]]

-----------------------------------------------------------------------------
(* The state machine: a call is drawn, then runs to its end.               *)

Start(o, call) ==
    /\ pc = "call"
    /\ op = o
    /\ args = Kwargs(call)
    /\ client = call.client
    /\ exc = ""
    /\ msg = ""
    /\ requests = <<>>
    /\ result = None

\* The call is c, or c with up to k more of the arguments from the i-th on
\* given another value.
RECURSIVE Drawn(_, _, _, _)
Drawn(o, c, i, k) ==
    \/ Start(o, c)
    \/ /\ k > 0
       /\ \E j \in i..Len(Signature(o)) : \E v \in Alts(o, Signature(o)[j]) :
              Drawn(o, [c EXCEPT ![Signature(o)[j]] = v], j + 1, k - 1)

Init == \E o \in Ops : Drawn(o, Defaults(o), 1, MaxSupplied)

\* The call ends as r says.
Ends(r) ==
    /\ pc' = "done"
    /\ exc' = r.exc
    /\ msg' = r.msg
    /\ requests' = r.requests
    /\ result' = r.result
    /\ UNCHANGED <<op, args, client>>

PeliasSearch ==
    /\ pc = "call"
    /\ op = "pelias_search"
    /\ Ends(pelias_search(client, args))

PeliasStructured ==
    /\ pc = "call"
    /\ op = "pelias_structured"
    /\ Ends(pelias_structured(client, args))

PeliasReverse ==
    /\ pc = "call"
    /\ op = "pelias_reverse"
    /\ Ends(pelias_reverse(client, args))

Next == PeliasSearch \/ PeliasStructured \/ PeliasReverse

Spec == Init /\ [][Next]_vars

\* The call of operation o.
Call(o, c, a) ==
    CASE o = "pelias_search" -> pelias_search(c, a)
      [] o = "pelias_structured" -> pelias_structured(c, a)
      [] o = "pelias_reverse" -> pelias_reverse(c, a)

-----------------------------------------------------------------------------
(* The calls of the two operations that take sources and layers, drawn     *)
(* over every sequence of items up to a length: one of the two arguments   *)
(* is such a list or tuple, and at most one more argument differs from its *)
(* default.                                                                *)

\* The longest sources or layers sequence drawn.
MaxSeqLen == 2

ListOps == {"pelias_search", "pelias_reverse"}

Items(p) ==
    IF p = "sources"
    THEN {Str(valid_sources[i]) : i \in 1..Len(valid_sources)} \cup {Str("foo")}
    ELSE {Str(valid_layers[i]) : i \in 1..Len(valid_layers)} \cup {Str("city")}

InitLists ==
    \E o \in ListOps : \E p \in {"sources", "layers"} :
    \E len \in 1..MaxSeqLen : \E xs \in [1..len -> Items(p)] :
    \E kind \in {"list", "tuple"} :
        Drawn(o, [Defaults(o) EXCEPT ![p] = [t |-> kind, n |-> 0, s |-> "", l |-> xs]], 1, 1)

NextLists == PeliasSearch \/ PeliasReverse

SpecLists == InitLists /\ [][NextLists]_vars

-----------------------------------------------------------------------------
(* What the claims speak of.                                               *)

Done == pc = "done"

\* The one request of a call that sent one.
Sent == Len(requests) = 1
SentParams == requests[1].params
SentKeys == DOMAIN SentParams

\* The exceptions the builders raise themselves, before they delegate: the
\* two they raise by name, and the IndexError of a coordinate sequence that is
\* too short.
BuilderErrors == {"TypeError", "ValueError", "IndexError"}

RequiredArgs(o) == IF o = "pelias_reverse" THEN {"point"} ELSE {"text"}

RequiredKeys(o) ==
    IF o = "pelias_reverse" THEN {"point.lon", "point.lat"} ELSE {"text"}

Endpoint(o) ==
    CASE o = "pelias_search" -> "/geocode/search"
      [] o = "pelias_structured" -> "/geocode/search/structured"
      [] o = "pelias_reverse" -> "/geocode/reverse"

\* The optional arguments of o that end up in the mapping.
OptionalArgs(o) ==
    {Signature(o)[i] : i \in 1..Len(Signature(o))}
        \ ({"client", "dry_run"} \cup RequiredArgs(o))

\* The keys the code writes for optional argument p of o.
KeysSetBy(o, p) ==
    CASE p = "focus_point" -> {"focus.point.lon", "focus.point.lat"}
      [] p = "rect_min_x" -> {"boundary.rect.min_lon\t"}
      [] p = "rect_min_y" -> {"boundary.rect.min_lat\t"}
      [] p = "rect_max_x" -> {"boundary.rect.max_lon\t"}
      [] p = "rect_max_y" -> {"boundary.rect.max_lon\t"}
      [] p = "circle_point" -> {"boundary.circle.lon", "boundary.circle.lat"}
      [] p = "circle_radius" -> {"boundary.circle.radius"}
      [] OTHER -> {p}

AllOptionalOmitted == \A p \in OptionalArgs(op) : args[p] = None

\* The arguments of o examined before argument p are as in Defaults(o).
QuietBefore(o, p) ==
    \A i, j \in 1..Len(Signature(o)) :
        (Signature(o)[j] = p /\ i < j /\ Signature(o)[i] # "client")
            => args[Signature(o)[i]] = Defaults(o)[Signature(o)[i]]

\* Every check the code makes of the arguments passes.
\* (sources, layers: absent or a list of valid items; the str fields: absent
\* or a str; point: a list.)
ListOk(v, valid) == ~Truthy(v) \/ (_is_list(v) /\ AllIn(v, valid))
StrOk(v) == ~Truthy(v) \/ IsStr(v)
ChecksPass ==
    CASE op = "pelias_search" ->
            /\ ListOk(args.sources, valid_sources)
            /\ ListOk(args.layers, valid_layers)
            /\ StrOk(args.country)
      [] op = "pelias_reverse" ->
            /\ _is_list(args.point)
            /\ ListOk(args.sources, valid_sources)
            /\ ListOk(args.layers, valid_layers)
            /\ StrOk(args.country)
      [] op = "pelias_structured" ->
            \A p \in OptionalArgs(op) : StrOk(args[p])

-----------------------------------------------------------------------------
\* C1: a call that ends in one of the builders' own errors (invalid type,
\* invalid value) has sent no request; any other call has sent exactly one
\* request, and only when every check of its arguments passes.  No request is
\* sent before the call runs.
C1_NoPartialRequest ==
    /\ pc = "call" => requests = <<>>
    /\ Done =>
        /\ exc \in BuilderErrors => requests = <<>>
        /\ exc \notin BuilderErrors => Sent /\ ChecksPass
        /\ ~ChecksPass => exc \in BuilderErrors

C1_Witness ==
    /\ Done
    /\ op = "pelias_search"
    /\ args.layers = List(<<Str("venue"), Str("city")>>)
    /\ Truthy(args.focus_point)
    /\ exc = "ValueError"
    /\ requests = <<>>

\* C2 as amended: the mapping of every request holds the required key(s) and
\* otherwise only keys written for optional arguments that are truthy (an
\* absent or falsy optional argument adds no key), and every key but the
\* required 'text' holds a non-empty, non-null value.
C2_OnlyTruthyOptionalKeys ==
    (Done /\ Sent) =>
        /\ SentKeys = RequiredKeys(op) \cup
                UNION {KeysSetBy(op, p) : p \in {q \in OptionalArgs(op) : Truthy(args[q])}}
        /\ \A k \in SentKeys \ {"text"} : Truthy(SentParams[k])
        /\ op # "pelias_reverse" => SentParams["text"] = args.text

\* C2 as stated: ... and no key at all is sent with an empty or null value.
C2_Original ==
    (Done /\ Sent) =>
        /\ SentKeys = RequiredKeys(op) \cup
                UNION {KeysSetBy(op, p) : p \in {q \in OptionalArgs(op) : Truthy(args[q])}}
        /\ \A k \in SentKeys : Truthy(SentParams[k])

C2_Witness ==
    /\ Done /\ Sent
    /\ op = "pelias_search"
    /\ args.size = PyInt(0)
    /\ args.sources = Str("")
    /\ args.text = Str("")
    /\ SentKeys = {"text"}

\* C3: with every optional argument omitted, a call whose required argument
\* is well-formed sends one request to the operation's endpoint, with exactly
\* the required key(s), the text as given (the coordinates formatted), and
\* dry_run as given; it returns what client.request returned, and an error of
\* client.request is the call's error.
C3_RequiredOnly ==
    (Done /\ AllOptionalOmitted) =>
        /\ (op # "pelias_reverse" \/ args.point = Defaults(op).point)
              => exc \notin BuilderErrors
        /\ exc \notin BuilderErrors =>
            /\ Sent
            /\ requests[1].path = Endpoint(op)
            /\ SentKeys = RequiredKeys(op)
            /\ requests[1].dry_run = args.dry_run
            /\ op # "pelias_reverse" => SentParams = [text |-> args.text]
            /\ (op = "pelias_reverse" /\ args.point = Defaults(op).point)
                  => SentParams = ("point.lon" :> Str("8.34")) @@ ("point.lat" :> Str("48.23"))
            /\ IF client.raises THEN exc = "ApiError"
               ELSE exc = "" /\ result = client.response

C3_Witness ==
    /\ Done /\ Sent /\ AllOptionalOmitted
    /\ op = "pelias_reverse"
    /\ args.dry_run = PyBool(TRUE)
    /\ args.point = List(<<PyFloat(8342340), PyFloat(48234240)>>)
    /\ SentParams = ("point.lon" :> Str("8.34234")) @@ ("point.lat" :> Str("48.23424"))
    /\ result = Str("{features: []}")

\* The allowed items, as the claims name them.
Allowed(p) ==
    IF p = "sources" THEN {"osm", "oa", "wof", "gn"}
    ELSE {valid_layers[i] : i \in 1..Len(valid_layers)}

AllAllowed(v, p) == \A i \in 1..Len(v.l) : v.l[i].t = "str" /\ v.l[i].s \in Allowed(p)

\* The message of the TypeError raised for argument p not being a list.
NotListMsg(p) ==
    IF p = "sources" THEN "Data source invalid." ELSE "Invalid layer type for geocoding."

\* C4: in pelias_search and pelias_reverse, a non-empty list or tuple of
\* allowed sources (layers) is sent as its items joined by commas in the
\* given order, and such a call raises nothing when its other arguments are
\* the defaults; with an item outside the allowed set no request is sent and
\* the call ends in an error, which is the ValueError unless an argument
\* examined earlier was given.
C4_CommaJoined ==
    (Done /\ op \in ListOps) =>
        \A p \in {"sources", "layers"} :
            (_is_list(args[p]) /\ Truthy(args[p])) =>
                IF AllAllowed(args[p], p)
                THEN /\ Sent => (p \in SentKeys /\ SentParams[p] = Str(Join(",", args[p].l)))
                     /\ (Sent /\ args[p].l = <<Str("wof"), Str("osm")>>)
                            => SentParams[p] = Str("wof,osm")
                     /\ (Sent /\ args[p].l = <<Str("county"), Str("venue")>>)
                            => SentParams[p] = Str("county,venue")
                     /\ (\A q \in DOMAIN args \ {p} : args[q] = Defaults(op)[q])
                            => Sent
                ELSE /\ requests = <<>>
                     /\ exc \in BuilderErrors
                     /\ QuietBefore(op, p) => exc = "ValueError"

C4_Witness ==
    /\ Done /\ Sent
    /\ op = "pelias_reverse"
    /\ args.layers = Tuple(<<Str("county"), Str("venue")>>)
    /\ SentParams["layers"] = Str("county,venue")

\* C5: the ValueError raised for an item outside the allowed set names the
\* allowed set: every valid source for sources, every valid layer for layers.
C5_MessageNamesAllowedSet ==
    (Done /\ op \in ListOps /\ exc = "ValueError"
          /\ Find(msg, "Source must be one or more of", 1) = 1) =>
        LET p == IF _is_list(args.sources) /\ ~AllAllowed(args.sources, "sources")
                 THEN "sources" ELSE "layers"
        IN  \A item \in Allowed(p) : Contains(msg, item)

\* What the call left behind.
Outcome == [exc |-> exc, msg |-> msg, requests |-> requests, result |-> result]

\* C6 as amended: in pelias_search and pelias_reverse a non-empty str given
\* as sources or layers sends no request and ends the call in an error, the
\* TypeError of that argument unless an argument examined earlier was given;
\* the empty str is taken as an omitted argument.
C6_NonEmptyStrRejected ==
    (Done /\ op \in ListOps) =>
        \A p \in {"sources", "layers"} :
            /\ (IsStr(args[p]) /\ args[p].s # "") =>
                    /\ requests = <<>>
                    /\ exc \in BuilderErrors
                    /\ QuietBefore(op, p) => (exc = "TypeError" /\ msg = NotListMsg(p))
            /\ args[p] = Str("") =>
                    Outcome = Call(op, client, [args EXCEPT ![p] = None])

\* C6 as stated: every str, the empty one too, is rejected.
C6_Original ==
    (Done /\ op \in ListOps) =>
        \A p \in {"sources", "layers"} :
            IsStr(args[p]) =>
                /\ requests = <<>>
                /\ exc \in BuilderErrors
                /\ QuietBefore(op, p) => (exc = "TypeError" /\ msg = NotListMsg(p))

C6_Witness ==
    /\ Done
    /\ op = "pelias_search"
    /\ args.sources = Str("osm")
    /\ exc = "TypeError"
    /\ msg = "Data source invalid."
    /\ requests = <<>>

\* The wire names of pelias_search, as the claim spells them.
WireNames ==
    { "text", "focus.point.lon", "focus.point.lat", "boundary.rect.min_lon",
      "boundary.rect.min_lat", "boundary.rect.max_lon", "boundary.circle.lon",
      "boundary.circle.lat", "boundary.circle.radius", "sources", "layers",
      "country", "size" }

\* C7: every key pelias_search sends is one of the wire names, character for
\* character, and a key is sent exactly when its argument is given.
C7_ExactWireNames ==
    (Done /\ op = "pelias_search" /\ Sent) =>
        /\ SentKeys \subseteq WireNames
        /\ "text" \in SentKeys
        /\ Truthy(args.focus_point) <=> "focus.point.lon" \in SentKeys
        /\ Truthy(args.focus_point) <=> "focus.point.lat" \in SentKeys
        /\ Truthy(args.rect_min_x) <=> "boundary.rect.min_lon" \in SentKeys
        /\ Truthy(args.rect_min_y) <=> "boundary.rect.min_lat" \in SentKeys
        /\ Truthy(args.rect_max_x) => "boundary.rect.max_lon" \in SentKeys
        /\ Truthy(args.circle_point) <=> "boundary.circle.lon" \in SentKeys
        /\ Truthy(args.circle_point) <=> "boundary.circle.lat" \in SentKeys
        /\ Truthy(args.circle_radius) <=> "boundary.circle.radius" \in SentKeys
        /\ \A p \in {"sources", "layers", "country", "size"} :
                Truthy(args[p]) <=> p \in SentKeys

\* The optional fields of pelias_structured.
Fields ==
    { "address", "neighbourhood", "borough", "locality", "county", "region",
      "postalcode", "country" }

\* C8 as amended: in pelias_structured a field given a truthy value that is
\* no str ends the call in a TypeError with no request sent, whatever the
\* other fields are; otherwise one request is sent, holding 'text' and, under
\* its own name and unchanged, every field given a non-empty str, and no
\* other key: a falsy value of any type is taken as an omitted field.
C8_StructuredFields ==
    (Done /\ op = "pelias_structured") =>
        IF \E f \in Fields : Truthy(args[f]) /\ ~IsStr(args[f])
        THEN exc = "TypeError" /\ requests = <<>>
        ELSE /\ Sent
             /\ SentKeys = {"text"} \cup {f \in Fields : IsStr(args[f]) /\ args[f].s # ""}
             /\ \A f \in SentKeys \ {"text"} : SentParams[f] = args[f]

\* C8 as stated: every field given a value that is no str, a falsy one such
\* as 0 too, ends the call in a TypeError with no request sent.
C8_Original ==
    (Done /\ op = "pelias_structured") =>
        IF \E f \in Fields : args[f] # None /\ ~IsStr(args[f])
        THEN exc = "TypeError" /\ requests = <<>>
        ELSE /\ Sent
             /\ SentKeys = {"text"} \cup {f \in Fields : IsStr(args[f]) /\ args[f].s # ""}
             /\ \A f \in SentKeys \ {"text"} : SentParams[f] = args[f]

C8_Witness ==
    /\ Done
    /\ op = "pelias_structured"
    /\ args.text = Str("Heidelberg")
    /\ args.address = PyInt(42)
    /\ args.locality = Str("Neuenheim")
    /\ exc = "TypeError"
    /\ requests = <<>>

\* C9: a coordinate pair that is given and is no list or tuple (a str
\* included) ends the call in a TypeError before any request: point in
\* pelias_reverse, whatever the other arguments are, and focus_point and
\* circle_point in pelias_search.
C9_PairMustBeSequence ==
    Done =>
        /\ (op = "pelias_reverse" /\ ~_is_list(args.point)) =>
                /\ exc = "TypeError"
                /\ msg = "Point must be a list/tuple of coordinates."
                /\ requests = <<>>
        /\ op = "pelias_search" =>
                \A p \in {"focus_point", "circle_point"} :
                    (Truthy(args[p]) /\ ~_is_list(args[p])) =>
                        /\ requests = <<>>
                        /\ QuietBefore(op, p) => exc = "TypeError"

\* C10: when pelias_search is given rect_max_y, the request holds its
\* formatted value under the key written for rect_max_x (the max-longitude
\* key), whether rect_max_x is given or not; that is the only rectangle-max
\* key, and there is no max-latitude key.
C10_MaxLatOverwritesMaxLon ==
    (Done /\ op = "pelias_search" /\ Sent /\ Truthy(args.rect_max_y)) =>
        /\ KeysSetBy(op, "rect_max_x") \subseteq SentKeys
        /\ \A k \in KeysSetBy(op, "rect_max_x") :
                /\ SentParams[k] = _format_float(args.rect_max_y).val
                /\ args.rect_max_y = PyInt(49) => SentParams[k] = Str("49")
                /\ args.rect_max_y = PyFloat(8500000) => SentParams[k] = Str("8.5")
        /\ {k \in SentKeys : Contains(k, "boundary.rect.max")} = KeysSetBy(op, "rect_max_x")
        /\ \A k \in SentKeys : ~Contains(k, "max_lat")

C10_Witness ==
    /\ Done /\ Sent
    /\ op = "pelias_search"
    /\ args.rect_max_x = PyFloat(8500000)
    /\ args.rect_max_y = PyInt(49)
    /\ SentParams["boundary.rect.max_lon\t"] = Str("49")

=============================================================================
